---------------------------- MODULE Spec2Model ----------------------------
(***************************************************************************)
(* A model of ws4py's threaded WebSocket handler                           *)
(* (ws4py/server/handler/threadedhandler.py) and of the stream assembler   *)
(* it drives (ws4py/streaming.py).                                         *)
(*                                                                         *)
(* Spec      the worker thread running WebSocketHandler._receive over one  *)
(*           connection, with an application thread calling close().       *)
(* SpecSend  WebSocketHandler.send in its three modes.                     *)
(* SpecConc  several threads inside write_to_connection on one socket.     *)
(***************************************************************************)
EXTENDS Integers, Sequences, FiniteSets, TLC

(***************************************************************************)
(* Bounds of the model.                                                    *)
(***************************************************************************)
MaxFrames == 3

MaxCloseCalls == 2

MaxChunks == 3

MaxWrites == 2

(***************************************************************************)
(* Opcodes imported from ws4py.framing (RFC 6455 values).                  *)
(***************************************************************************)
OPCODE_CONTINUATION == 0

OPCODE_TEXT == 1

OPCODE_BINARY == 2

OPCODE_CLOSE == 8

OPCODE_PING == 9

OPCODE_PONG == 10

(***************************************************************************)
(* Bytes.  A payload is a sequence of byte values.  The alphabet holds an  *)
(* ASCII letter (97) and the two bytes of U+00E9 (195 169), so that a      *)
(* UTF-8 sequence can be valid, invalid, or split across two frames.       *)
(***************************************************************************)
RECURSIVE Xor(_, _)
Xor(a, b) ==
    IF a = 0 THEN b
    ELSE IF b = 0 THEN a
    ELSE ((a + b) % 2) + 2 * Xor(a \div 2, b \div 2)

\* Frame.unmask: byte i is XOR-ed with key[i mod 4].
unmask(key, bytes) ==
    [i \in 1..Len(bytes) |-> Xor(bytes[i], key[((i - 1) % 4) + 1])]

\* bytes.decode("utf-8"): strict decoding of 1- and 2-byte sequences (the
\* alphabet holds no lead byte of a longer sequence).  ok is FALSE where
\* Python raises UnicodeDecodeError.
RECURSIVE Utf8Decode(_)
Utf8Decode(bytes) ==
    IF bytes = <<>> THEN [ok |-> TRUE, text |-> <<>>]
    ELSE IF bytes[1] < 128
         THEN LET r == Utf8Decode(Tail(bytes))
              IN  [ok |-> r.ok, text |-> <<bytes[1]>> \o r.text]
    ELSE IF /\ bytes[1] >= 194 /\ bytes[1] <= 223 /\ Len(bytes) >= 2
            /\ bytes[2] >= 128 /\ bytes[2] <= 191
         THEN LET r == Utf8Decode(Tail(Tail(bytes)))
              IN  [ok |-> r.ok,
                   text |-> <<(bytes[1] - 192) * 64 + (bytes[2] - 128)>> \o r.text]
    ELSE [ok |-> FALSE, text |-> <<>>]

\* bytes.decode("utf-8", "replace"): every undecodable byte becomes U+FFFD.
RECURSIVE Utf8Replace(_)
Utf8Replace(bytes) ==
    IF bytes = <<>> THEN <<>>
    ELSE IF bytes[1] < 128 THEN <<bytes[1]>> \o Utf8Replace(Tail(bytes))
    ELSE IF /\ bytes[1] >= 194 /\ bytes[1] <= 223 /\ Len(bytes) >= 2
            /\ bytes[2] >= 128 /\ bytes[2] <= 191
         THEN <<(bytes[1] - 192) * 64 + (bytes[2] - 128)>>
              \o Utf8Replace(Tail(Tail(bytes)))
    ELSE <<65533>> \o Utf8Replace(Tail(bytes))

(***************************************************************************)
(* Frames on the wire.  A frame is what the peer sends: fin, opcode, the   *)
(* masking key (<<>> when the mask bit is clear), the body as transmitted  *)
(* (masked when there is a key) and whether the declared payload length    *)
(* exceeds the decoder's configured maximum.                               *)
(***************************************************************************)
MaskKey == <<1, 2, 3, 4>>

Plain(op, fin, payload) ==
    [fin |-> fin, opcode |-> op, key |-> <<>>, body |-> payload, oversize |-> FALSE]

Masked(op, fin, payload) ==
    [fin |-> fin, opcode |-> op, key |-> MaskKey,
     body |-> unmask(MaskKey, payload), oversize |-> FALSE]

Oversize(op, fin) ==
    [fin |-> fin, opcode |-> op, key |-> <<>>, body |-> <<>>, oversize |-> TRUE]

\* The frames the peer may send.
WireFrames ==
    { Masked(OPCODE_TEXT, 1, <<97>>),
      Plain(OPCODE_TEXT, 0, <<195>>),
      Plain(OPCODE_TEXT, 0, <<>>),
      Plain(OPCODE_TEXT, 1, <<195>>),
      Plain(OPCODE_BINARY, 0, <<195>>),
      Plain(OPCODE_BINARY, 1, <<>>),
      Plain(OPCODE_CONTINUATION, 0, <<97>>),
      Plain(OPCODE_CONTINUATION, 1, <<169>>),
      Plain(OPCODE_CONTINUATION, 1, <<>>),
      Masked(OPCODE_PING, 1, <<97>>),
      Plain(OPCODE_PING, 1, <<>>),
      Plain(OPCODE_PONG, 1, <<97>>),
      Plain(OPCODE_PONG, 1, <<>>),
      Plain(OPCODE_CLOSE, 1, <<>>),
      Plain(OPCODE_CLOSE, 1, <<97>>),
      Plain(OPCODE_PING, 0, <<97>>),
      Plain(3, 1, <<97>>),
      Oversize(OPCODE_TEXT, 1),
      Oversize(OPCODE_CONTINUATION, 1),
      Plain(OPCODE_TEXT, 1, <<195, 169>>),
      Plain(OPCODE_BINARY, 1, <<97>>) }

\* The payload a frame carries, as the sender meant it.
Payload(f) == IF f.key # <<>> THEN unmask(f.key, f.body) ELSE f.body

IsControl(op) == op >= 8

(***************************************************************************)
(* framing.Frame's incremental decoder.  Fed the bytes it asked for at     *)
(* `stage`, it asks for more (need), completes (ready) or raises (failed). *)
(***************************************************************************)
FrameFeed(stage, f) ==
    LET bodyOrReady ==
            IF Len(f.body) > 0
            THEN [res |-> "need", n |-> Len(f.body), stage |-> "body", kind |-> "none"]
            ELSE [res |-> "ready", n |-> 0, stage |-> "done", kind |-> "none"]
    IN  CASE stage = "hdr" ->
               IF \/ f.opcode \notin {OPCODE_CONTINUATION, OPCODE_TEXT, OPCODE_BINARY,
                                      OPCODE_CLOSE, OPCODE_PING, OPCODE_PONG}
                  \/ IsControl(f.opcode) /\ f.fin = 0
               THEN [res |-> "failed", n |-> 0, stage |-> "done",
                     kind |-> "ProtocolException"]
               ELSE IF f.oversize
               THEN [res |-> "need", n |-> 8, stage |-> "ext", kind |-> "none"]
               ELSE IF f.key # <<>>
               THEN [res |-> "need", n |-> 4, stage |-> "mask", kind |-> "none"]
               ELSE bodyOrReady
          [] stage = "ext" ->
               [res |-> "failed", n |-> 0, stage |-> "done",
                kind |-> "FrameTooLargeException"]
          [] stage = "mask" -> bodyOrReady
          [] OTHER -> [res |-> "ready", n |-> 0, stage |-> "done", kind |-> "none"]

(***************************************************************************)
(* messaging: the message values the stream builds.  seq is the serial     *)
(* number on the wire of the frame that last touched the value.            *)
(***************************************************************************)
NewMessage(op, data, fin, seq) ==
    [opcode |-> op, data |-> data, completed |-> (fin = 1), seq |-> seq]

CloseControlMessage(code, reason) == [code |-> code, reason |-> reason]

DefaultCloseCode == 1000

ControlMessage(data, seq) == [data |-> data, seq |-> seq]

\* An encoded frame, as written to the transport.
Encoded(op, fin, body) == [opcode |-> op, fin |-> fin, body |-> body]

\* Message.single(): the message as one unfragmented, unmasked frame.
Single(op, data) == Encoded(op, 1, data)

\* Message.fragment(first, last): one fragment of a message.
Fragment(op, data, first, last) ==
    Encoded(IF first THEN op ELSE OPCODE_CONTINUATION, IF last THEN 1 ELSE 0, data)

(***************************************************************************)
(* streaming.Stream                                                        *)
(***************************************************************************)
NewStream ==
    [message |-> <<>>, pings |-> <<>>, pongs |-> <<>>, closing |-> <<>>,
     errors |-> <<>>]

has_message_any(s) == s.message # <<>>

\* Stream.has_message
has_message(s) == IF s.message # <<>> THEN s.message[1].completed ELSE FALSE

\* Stream.pong(data): the bytes of a single-frame pong.
StreamPong(data) == Single(OPCODE_PONG, data)

\* Stream.close(code, reason): returns the BYTES of the close frame, already
\* built with .single().
StreamClose(code, reason) ==
    [type |-> "bytes", frame |-> Single(OPCODE_CLOSE, <<code>> \o reason)]

AddError(s, code) ==
    [s EXCEPT !.errors = Append(@, CloseControlMessage(code, <<>>))]

\* Stream.receiver, the StopIteration branch: what a decoded frame does to
\* the stream, by opcode.  Each result is [s, brk]: the stream afterwards and
\* whether the branch left by `break` before reaching the alignment yield.

\* A text frame.
OnText(s, fin, bytes, seq) ==
    IF s.message # <<>> /\ ~s.message[1].completed
    THEN [s |-> AddError(s, 1002), brk |-> TRUE]
    ELSE LET d == Utf8Decode(bytes)
         IN  IF d.ok
             THEN [s |-> [s EXCEPT !.message =
                             <<NewMessage(OPCODE_TEXT, d.text, fin, seq)>>],
                   brk |-> FALSE]
             ELSE [s |-> AddError(s, 1007), brk |-> TRUE]

\* A binary frame.
OnBinary(s, fin, bytes, seq) ==
    [s |-> [s EXCEPT !.message = <<NewMessage(OPCODE_BINARY, bytes, fin, seq)>>],
     brk |-> FALSE]

OrphanContinuationIgnored(s) == [s |-> s, brk |-> TRUE]

\* A continuation frame while the stream holds no message.
OrphanContinuation(s) == [s |-> AddError(s, 1002), brk |-> TRUE]

\* A continuation frame.
OnContinuation(s, fin, bytes, seq) ==
    IF s.message = <<>>
    THEN OrphanContinuation(s)
    ELSE LET m == [s.message[1] EXCEPT !.completed = (fin = 1), !.seq = seq]
             d == Utf8Decode(bytes)
         IN  IF m.opcode = OPCODE_TEXT
             THEN IF d.ok
                  THEN [s |-> [s EXCEPT !.message = <<[m EXCEPT !.data = @ \o d.text]>>],
                        brk |-> FALSE]
                  ELSE [s |-> AddError([s EXCEPT !.message = <<m>>], 1007),
                        brk |-> TRUE]
             ELSE [s |-> [s EXCEPT !.message = <<[m EXCEPT !.data = @ \o bytes]>>],
                   brk |-> FALSE]

\* A close frame: the whole payload, leniently decoded, becomes the reason;
\* the code is left at CloseControlMessage's default.
OnClose(s, bytes) ==
    [s |-> [s EXCEPT !.closing =
               <<CloseControlMessage(DefaultCloseCode, Utf8Replace(bytes))>>],
     brk |-> FALSE]

Classify(s, opcode, fin, bytes, seq) ==
    CASE opcode = OPCODE_TEXT -> OnText(s, fin, bytes, seq)
      [] opcode = OPCODE_BINARY -> OnBinary(s, fin, bytes, seq)
      [] opcode = OPCODE_CONTINUATION -> OnContinuation(s, fin, bytes, seq)
      [] opcode = OPCODE_CLOSE -> OnClose(s, bytes)
      [] opcode = OPCODE_PING ->
           [s |-> [s EXCEPT !.pings = Append(@, ControlMessage(bytes, seq))],
            brk |-> FALSE]
      [] opcode = OPCODE_PONG ->
           [s |-> [s EXCEPT !.pongs = Append(@, ControlMessage(bytes, seq))],
            brk |-> FALSE]
      [] OTHER -> [s |-> AddError(s, 1003), brk |-> FALSE]

\* The close code Stream.receiver queues for an exception of the decoder.
ErrorCode(kind) == IF kind = "ProtocolException" THEN 1002 ELSE 1004

NewParser == [at |-> "feed", stage |-> "hdr"]

\* Where Stream.receiver suspends after classifying a frame whose payload
\* (after unmasking) is `bytes`: at the alignment `yield 0` when the payload
\* is empty and the branch did not break, else in a fresh Frame asking for
\* its 2 header bytes.
AfterFrame(c, bytes, status) ==
    IF ~c.brk /\ bytes = <<>>
    THEN [s |-> c.s, parser |-> [at |-> "align", stage |-> "hdr"], next |-> 0,
          status |-> status]
    ELSE [s |-> c.s, parser |-> NewParser, next |-> 2, status |-> status]

\* One s.parser.send(bytes) with all the bytes last asked for: f is the
\* frame in flight and seq its serial number.
StreamSend(s, parser, f, seq) ==
    IF parser.at = "align"
    THEN [s |-> s, parser |-> NewParser, next |-> 2, status |-> "none"]
    ELSE LET r == FrameFeed(parser.stage, f)
         IN  CASE r.res = "need" ->
                    [s |-> s, parser |-> [at |-> "feed", stage |-> r.stage],
                     next |-> r.n, status |-> "none"]
               [] r.res = "ready" ->
                    LET bytes == IF f.key # <<>> /\ f.body # <<>>
                                 THEN unmask(f.key, f.body) ELSE f.body
                    IN  AfterFrame(Classify(s, f.opcode, f.fin, bytes, seq), bytes, "ok")
               [] OTHER ->
                    \* the decoder raised: the error is queued, the loop goes
                    \* round, the dead decoder raises StopIteration and the
                    \* half-parsed frame (header fields, no body) is classified
                    AfterFrame(Classify(AddError(s, ErrorCode(r.kind)),
                                        f.opcode, f.fin, <<>>, seq),
                               <<>>, r.kind)

(***************************************************************************)
(* State.                                                                  *)
(*   pc                 where the worker thread (_receive) stands          *)
(*   next_size          _receive's local next_size                         *)
(*   client_terminated, server_terminated    the handler's two flags       *)
(*   sock               the socket: its timeout (0 is None, blocking       *)
(*                      forever) and whether it is open                    *)
(*   stream, parser     the Stream and where its receiver is suspended     *)
(*   wire               the frames the peer has started to send, in order  *)
(*   cycle              the frame whose decoding ended in this loop cycle  *)
(*                      and how, or whose first bytes the receiver dropped *)
(*                      ([seq |-> 0] when neither), or that the read came  *)
(*                      back empty or short                                *)
(*   out                the frames written to the transport, in order      *)
(*   cbLog              the application callbacks invoked, in order        *)
(*   exit               how the read loop was left                         *)
(*   closeCalls         close() calls made by the application thread       *)
(*   snd                SpecSend: the send() call in progress              *)
(*   thr, sockbuf       SpecConc: threads inside write_to_connection and   *)
(*                      the bytes the socket has accepted, in order        *)
(*   closer             SpecClose: where each thread stands in close()     *)
(***************************************************************************)
VARIABLES pc, next_size, client_terminated, server_terminated, sock, stream,
          parser, wire, cycle, out, cbLog, exit, closeCalls, snd, thr, sockbuf,
          closer

wvars == <<pc, next_size, client_terminated, server_terminated, sock, stream,
           parser, wire, cycle, out, cbLog, exit, closeCalls>>

vars == <<pc, next_size, client_terminated, server_terminated, sock, stream,
          parser, wire, cycle, out, cbLog, exit, closeCalls, snd, thr, sockbuf, closer>>

NoCycle == [seq |-> 0, status |-> "none"]

terminated_either == client_terminated = TRUE \/ server_terminated = TRUE

\* WebSocketHandler.terminated
terminated == client_terminated = TRUE /\ server_terminated = TRUE

\* Whether a value has a .single() method: messages do, byte strings do not.
HasSingle(v) == v.type = "message"

\* WebSocketHandler.close(code, reason), called with server_terminated = st
\* and the transport holding o.  The argument of write_to_connection is
\* stream.close(...).single(); stream.close already returns bytes, and bytes
\* have no .single(): the attribute lookup raises before anything is written.
HandlerClose(st, o, code, reason) ==
    IF ~st
    THEN LET built == StreamClose(code, reason)
         IN  IF HasSingle(built)
             THEN [st |-> TRUE, out |-> Append(o, built.frame), raised |-> FALSE]
             ELSE [st |-> TRUE, out |-> o, raised |-> TRUE]
    ELSE [st |-> st, out |-> o, raised |-> FALSE]

\* _receive, the loop over the queued errors: close() for each, then remove
\* it; an exception raised by close() leaves the loop with the error queued.
RECURSIVE DrainErrors(_, _, _)
DrainErrors(st, o, errors) ==
    IF errors = <<>>
    THEN [st |-> st, out |-> o, errors |-> <<>>, raised |-> FALSE]
    ELSE LET c == HandlerClose(st, o, errors[1].code, errors[1].reason)
         IN  IF c.raised
             THEN [st |-> c.st, out |-> c.out, errors |-> errors, raised |-> TRUE]
             ELSE DrainErrors(c.st, c.out, Tail(errors))

PongFramesEmpty(pings) == [i \in 1..Len(pings) |-> StreamPong(<<>>)]

\* _receive: the pongs written for the queued pings.
PongFrames(pings) == [i \in 1..Len(pings) |-> StreamPong(pings[i].data)]

\* _receive: s.pings = [] after the pings were answered.
PingsAfterDrain(pings) == <<>>

PongsKept(pongs) == pongs

\* _receive: s.pongs = [] after the pongs were dispatched.
PongsAfterDrain(pongs) == <<>>

\* The record of one callback invocation.
Callback(name, seq, op, data) == [cb |-> name, seq |-> seq, op |-> op, data |-> data]

PongedCalls(pongs) ==
    [i \in 1..Len(pongs) |-> Callback("ponged", pongs[i].seq, OPCODE_PONG, pongs[i].data)]

\* What sock.recv can do besides returning all the bytes asked for or
\* none: the connection is reset, or the socket's timeout expires (only when
\* it has one).
RecvFailures(timeout) ==
    {"reset"} \cup (IF timeout # 0 THEN {"timeout"} ELSE {})

\* close_connection: shutdown then close inside one try; when shutdown
\* raises, close is skipped and the exception swallowed.
CloseConnection(s, shutdownOk) ==
    IF shutdownOk THEN [s EXCEPT !.state = "closed"] ELSE s

InitWorker ==
    /\ pc = "init"
    /\ next_size = 0
    /\ client_terminated = FALSE
    /\ server_terminated = FALSE
    /\ sock = [timeout |-> 30, state |-> "open"]
    /\ stream = NewStream
    /\ parser = NewParser
    /\ wire = <<>>
    /\ cycle = NoCycle
    /\ out = <<>>
    /\ cbLog = <<>>
    /\ exit = "none"
    /\ closeCalls = 0

IdleSend ==
    [pc |-> "idle", binary |-> FALSE, chunks |-> <<>>, rest |-> <<>>, bytes |-> <<>>,
     first |-> FALSE]

InitSend == snd = IdleSend

Threads == {"worker", "app1", "app2"}

IdleThread == [queue |-> <<>>, left |-> <<>>, calls |-> 0]

InitConc == thr = [t \in Threads |-> IdleThread] /\ sockbuf = <<>>

OutsideClose == [at |-> "out", code |-> 0, calls |-> 0, passed |-> FALSE]

InitClose == closer = [t \in Threads |-> OutsideClose]

Init == InitWorker /\ InitSend /\ InitConc /\ InitClose

\* opened() starts the thread; _receive begins: next_size = 2 and
\* sock.setblocking(1), which is settimeout(None).
Start ==
    /\ pc = "init"
    /\ pc' = "read"
    /\ next_size' = 2
    /\ sock' = [sock EXCEPT !.timeout = 0]
    /\ UNCHANGED <<client_terminated, server_terminated, stream, parser, wire,
                   cycle, out, cbLog, exit, closeCalls, snd, thr, sockbuf, closer>>

\* The loop test, then read_from_connection(next_size) returning all the
\* bytes asked for (none when next_size is 0), then s.parser.send(bytes).
\* When the receiver waits for the header of a frame, the bytes are those of
\* the next frame the peer sends; otherwise they are the next bytes of the
\* frame in flight (or, at the alignment yield, the empty string).  A read
\* of next_size > 0 bytes made while the receiver stands at the alignment
\* yield takes the first bytes of the peer's next frame off the transport;
\* the receiver drops whatever it is sent there.
ReadFeed ==
    /\ pc = "read"
    /\ IF terminated
       THEN /\ pc' = "finally"
            /\ exit' = "terminated"
            /\ UNCHANGED <<next_size, stream, parser, wire, cycle>>
       ELSE LET fresh == next_size > 0 /\ parser.stage = "hdr"
                dropped == next_size > 0 /\ parser.at = "align"
            IN  /\ fresh => Len(wire) < MaxFrames
                /\ \E f \in (IF fresh THEN WireFrames ELSE {wire[Len(wire)]}) :
                      LET seq == IF fresh THEN Len(wire) + 1 ELSE Len(wire)
                          r == StreamSend(stream, parser, f, seq)
                      IN  /\ wire' = IF fresh THEN Append(wire, f) ELSE wire
                          /\ stream' = r.s
                          /\ parser' = r.parser
                          /\ next_size' = r.next
                          /\ cycle' = IF dropped THEN [seq |-> seq, status |-> "dropped"]
                                      ELSE IF r.status = "none" THEN NoCycle
                                      ELSE [seq |-> seq, status |-> r.status]
                          /\ pc' = "inspect"
                          /\ exit' = exit
    /\ UNCHANGED <<client_terminated, server_terminated, sock, out, cbLog,
                   closeCalls, snd, thr, sockbuf, closer>>

EmptyReadFed(n, size) == FALSE

\* _receive, line 183: `not bytes and next_size > 0`, for a read that
\* returned n bytes when size were asked for.
EmptyReadBreaks(n, size) == n = 0 /\ size > 0

\* read_from_connection returns no bytes although some were asked for: the
\* peer closed the transport.  The loop breaks.  (Were the empty string fed
\* to the receiver instead, its decoder would take it for the end of the
\* stream and the receiver return: send() would raise StopIteration into
\* _receive's bare except.)
ReadEOF ==
    /\ pc = "read"
    /\ ~terminated
    /\ next_size > 0
    /\ pc' = "finally"
    /\ exit' = IF EmptyReadBreaks(0, next_size) THEN "eof" ELSE "exception"
    /\ cycle' = [seq |-> 0, status |-> "empty"]
    /\ UNCHANGED <<next_size, client_terminated, server_terminated, sock, stream,
                   parser, wire, out, cbLog, closeCalls, snd, thr, sockbuf, closer>>

\* read_from_connection raises (reset, or timeout when the socket has one),
\* or returns fewer bytes than asked for, which the frame decoder refuses
\* with InvalidBytesError; the receiver does not catch it.  Either way the
\* exception reaches _receive's bare except.
ReadFail ==
    /\ pc = "read"
    /\ ~terminated
    /\ next_size > 0
    /\ \E o \in RecvFailures(sock.timeout) \cup {"short"} :
          /\ o = "short" => next_size >= 2 /\ parser.at = "feed"
          /\ exit' = o
          /\ cycle' = IF o = "short" THEN [seq |-> 0, status |-> "short"] ELSE cycle
    /\ pc' = "finally"
    /\ UNCHANGED <<next_size, client_terminated, server_terminated, sock, stream,
                   parser, wire, out, cbLog, closeCalls, snd, thr, sockbuf, closer>>

\* _receive, the inspection of the stream after a feed: close handshake,
\* else error drain, else message dispatch.  In the handshake branch the
\* test of server_terminated (line 190) and the call of close() (line 192),
\* which tests the flag again, are two steps: an application thread may
\* run in between.
Inspect ==
    /\ pc = "inspect"
    /\ IF stream.closing # <<>>
       THEN IF ~server_terminated
            THEN /\ next_size' = 2
                 /\ pc' = "answer"
                 /\ UNCHANGED <<client_terminated, server_terminated, stream, out,
                                cbLog, exit>>
            ELSE /\ client_terminated' = TRUE
                 /\ pc' = "finally"
                 /\ exit' = "handshake"
                 /\ UNCHANGED <<next_size, server_terminated, stream, out, cbLog>>
       ELSE IF stream.errors # <<>>
       THEN LET d == DrainErrors(server_terminated, out, stream.errors)
            IN  /\ server_terminated' = d.st
                /\ out' = d.out
                /\ stream' = [stream EXCEPT !.errors = d.errors]
                /\ pc' = "finally"
                /\ exit' = IF d.raised THEN "exception" ELSE "errors"
                /\ UNCHANGED <<next_size, client_terminated, cbLog>>
       ELSE IF has_message(stream)
       THEN LET m == stream.message[1]
            IN  /\ cbLog' = Append(cbLog,
                               Callback("received_message", m.seq, m.opcode, m.data))
                /\ stream' = [stream EXCEPT !.message = <<>>]
                /\ pc' = "drain"
                /\ UNCHANGED <<next_size, client_terminated, server_terminated, out,
                               exit>>
       ELSE /\ pc' = "drain"
            /\ UNCHANGED <<next_size, client_terminated, server_terminated, stream,
                           out, cbLog, exit>>
    /\ UNCHANGED <<sock, parser, wire, cycle, closeCalls, snd, thr, sockbuf, closer>>

\* _receive, line 192: self.close(s.closing.code, s.closing.reason), the
\* answer to the peer's Close.  When close() returns, the cycle goes on to
\* the ping and pong drain; when it raises, the loop is left.
Answer ==
    /\ pc = "answer"
    /\ LET c == HandlerClose(server_terminated, out,
                             stream.closing[1].code, stream.closing[1].reason)
       IN  /\ server_terminated' = c.st
           /\ out' = c.out
           /\ pc' = IF c.raised THEN "finally" ELSE "drain"
           /\ exit' = IF c.raised THEN "exception" ELSE exit
    /\ UNCHANGED <<next_size, client_terminated, sock, stream, parser, wire, cycle,
                   cbLog, closeCalls, snd, thr, sockbuf, closer>>

\* _receive, the end of a loop cycle: a pong is written for every queued
\* ping, then ponged() is called for every queued pong.
Drain ==
    /\ pc = "drain"
    /\ out' = out \o PongFrames(stream.pings)
    /\ cbLog' = cbLog \o PongedCalls(stream.pongs)
    /\ stream' = [stream EXCEPT !.pings = PingsAfterDrain(@),
                                !.pongs = PongsAfterDrain(@)]
    /\ cycle' = NoCycle
    /\ pc' = "read"
    /\ UNCHANGED <<next_size, client_terminated, server_terminated, sock, parser,
                   wire, exit, closeCalls, snd, thr, sockbuf, closer>>

\* _receive, the except and finally clauses of the loop.
Finally ==
    /\ pc = "finally"
    /\ client_terminated' = TRUE
    /\ server_terminated' = TRUE
    /\ pc' = "closing"
    /\ UNCHANGED <<next_size, sock, stream, parser, wire, cycle, out, cbLog, exit,
                   closeCalls, snd, thr, sockbuf, closer>>

\* _receive after the loop: closed(1006) unless a peer Close was recorded,
\* then close_connection().
Teardown ==
    /\ pc = "closing"
    /\ cbLog' = IF stream.closing = <<>>
                THEN Append(cbLog, Callback("closed", 0, 0, <<1006>>))
                ELSE cbLog
    /\ \E shutdownOk \in BOOLEAN : sock' = CloseConnection(sock, shutdownOk)
    /\ pc' = "done"
    /\ UNCHANGED <<next_size, client_terminated, server_terminated, stream, parser,
                   wire, cycle, out, exit, closeCalls, snd, thr, sockbuf, closer>>

\* The application calls close(code) from its own thread.
AppClose ==
    /\ closeCalls < MaxCloseCalls
    /\ \E code \in {1000, 1001} :
         LET c == HandlerClose(server_terminated, out, code, <<>>)
         IN  /\ server_terminated' = c.st
             /\ out' = c.out
    /\ closeCalls' = closeCalls + 1
    /\ UNCHANGED <<pc, next_size, client_terminated, sock, stream, parser, wire,
                   cycle, cbLog, exit, snd, thr, sockbuf, closer>>

Next ==
    \/ Start
    \/ ReadFeed
    \/ ReadEOF
    \/ ReadFail
    \/ Inspect
    \/ Answer
    \/ Drain
    \/ Finally
    \/ Teardown
    \/ AppClose

Spec == Init /\ [][Next]_vars

(***************************************************************************)
(* What the claims speak of, read off the wire and the logs.               *)
(***************************************************************************)
IsData(op) == op \in {OPCODE_TEXT, OPCODE_BINARY, OPCODE_CONTINUATION}

CloseFramesWritten == {i \in DOMAIN out : out[i].opcode = OPCODE_CLOSE}

\* The frame whose decoding ended in this cycle.
CycleFrame == wire[cycle.seq]

\* A frame was decoded without error in this cycle and is being inspected
\* or drained.
Decoded(ops) ==
    /\ pc \in {"inspect", "drain"}
    /\ cycle.seq > 0
    /\ cycle.status = "ok"
    /\ CycleFrame.opcode \in ops

\* The last text or binary frame among the first j frames (0 when none).
RunStart(j) ==
    LET starts == {k \in 1..j : wire[k].opcode \in {OPCODE_TEXT, OPCODE_BINARY}}
    IN  IF starts = {} THEN 0 ELSE CHOOSE k \in starts : \A l \in starts : l <= k

\* Frames i..j are one message so far: frame i starts it on a stream that
\* holds no incomplete message, the data frames after it are continuations,
\* and none before frame j has fin set.
OneMessage(i, j) ==
    /\ i > 0
    /\ IsData(wire[j].opcode)
    /\ \A k \in i..(j - 1) : IsData(wire[k].opcode) => wire[k].fin = 0
    /\ \A k \in 1..(i - 1) :
          (IsData(wire[k].opcode) /\ \A l \in (k + 1)..(i - 1) : ~IsData(wire[l].opcode))
             => wire[k].fin = 1

\* The payloads of the data frames i..j, concatenated in arrival order.
RECURSIVE RunBytes(_, _)
RunBytes(i, j) ==
    IF i > j THEN <<>>
    ELSE (IF IsData(wire[i].opcode) THEN Payload(wire[i]) ELSE <<>>) \o RunBytes(i + 1, j)

\* What a message of kind op with these payload bytes carries.
MessageData(op, bytes) == IF op = OPCODE_TEXT THEN Utf8Decode(bytes).text ELSE bytes

\* Valid UTF-8, or valid but for a last character still missing its tail.
Utf8PrefixOk(bytes) ==
    \/ Utf8Decode(bytes).ok
    \/ /\ bytes # <<>>
       /\ bytes[Len(bytes)] >= 194 /\ bytes[Len(bytes)] <= 223
       /\ Utf8Decode(SubSeq(bytes, 1, Len(bytes) - 1)).ok

\* Every text fragment among frames i..j is valid UTF-8 by itself.
EachFragmentValid(i, j) ==
    wire[i].opcode = OPCODE_TEXT =>
       \A k \in i..j : IsData(wire[k].opcode) => Utf8Decode(Payload(wire[k])).ok

(***************************************************************************)
(* C1.  close() is idempotent: once close() has been called, exactly one   *)
(* Close frame has been written to the transport, and server_terminated is *)
(* set.                                                                    *)
(***************************************************************************)
C1_ExactlyOneCloseFrame ==
    closeCalls >= 1 => server_terminated /\ Cardinality(CloseFramesWritten) = 1

(***************************************************************************)
(* C2.  A ping with payload P that completes while no peer Close is        *)
(* recorded and the error queue is empty is answered, before the next      *)
(* read, by exactly one Pong frame with payload P, and no application      *)
(* callback is invoked in that cycle.                                      *)
(***************************************************************************)
PingCompleted ==
    /\ Decoded({OPCODE_PING})
    /\ stream.closing = <<>>
    /\ stream.errors = <<>>

C2_PingAnswered ==
    [][ (PingCompleted /\ pc' # pc) =>
          /\ cbLog' = cbLog
          /\ pc = "inspect" => (pc' = "drain" /\ out' = out /\ wire' = wire)
          /\ pc = "drain" =>
                /\ pc' = "read"
                /\ wire' = wire
                /\ out' = Append(out, Encoded(OPCODE_PONG, 1, Payload(CycleFrame))) ]_vars

C2_Witness ==
    /\ pc = "read"
    /\ wire # <<>>
    /\ wire[Len(wire)] = Masked(OPCODE_PING, 1, <<97>>)
    /\ out = <<Encoded(OPCODE_PONG, 1, <<97>>)>>
    /\ cbLog = <<>>

(***************************************************************************)
(* C3.  A continuation frame that completes while the stream holds no      *)
(* message queues an error record with code 1002, and the read loop exits  *)
(* in that cycle: no further read, no message dispatched.                  *)
(***************************************************************************)
OrphanInspected ==
    /\ pc = "inspect"
    /\ Decoded({OPCODE_CONTINUATION})
    /\ stream.message = <<>>

C3_OrphanContinuation ==
    [][ /\ (/\ pc = "read" /\ pc' = "inspect" /\ stream.message = <<>>
            /\ cycle'.status = "ok"
            /\ wire'[cycle'.seq].opcode = OPCODE_CONTINUATION)
           => /\ stream'.errors = Append(stream.errors, CloseControlMessage(1002, <<>>))
              /\ stream'.message = <<>>
        /\ (OrphanInspected /\ pc' # pc)
           => /\ pc' = "finally"
              /\ cbLog' = cbLog
              /\ wire' = wire ]_vars

C3_Witness ==
    /\ pc = "finally"
    /\ cycle.seq = 2
    /\ cycle.status = "ok"
    /\ wire[2].opcode = OPCODE_CONTINUATION
    /\ wire[1].opcode = OPCODE_TEXT
    /\ stream.message = <<>>
    /\ \E i \in DOMAIN stream.errors : stream.errors[i].code = 1002

(***************************************************************************)
(* C4.  Reassembly.  As claimed: whenever frames i..j are one message so   *)
(* far and its bytes are (a prefix of) valid text, no error is queued, the *)
(* stream's message holds the concatenation of the payloads, and           *)
(* has_message is true exactly when frame j has fin set.                   *)
(***************************************************************************)
C4_AnyFragmentation ==
    LET j == cycle.seq
        i == RunStart(j)
        bytes == RunBytes(i, j)
    IN  (/\ pc = "inspect"
         /\ Decoded({OPCODE_TEXT, OPCODE_BINARY, OPCODE_CONTINUATION})
         /\ OneMessage(i, j)
         /\ wire[i].opcode = OPCODE_TEXT =>
               IF wire[j].fin = 1 THEN Utf8Decode(bytes).ok ELSE Utf8PrefixOk(bytes))
        => /\ stream.errors = <<>>
           /\ stream.message # <<>>
           /\ has_message(stream) <=> wire[j].fin = 1
           /\ wire[j].fin = 1 =>
                 stream.message[1].data = MessageData(wire[i].opcode, bytes)

(***************************************************************************)
(* C4, amended.  The same for a message every text fragment of which is    *)
(* valid UTF-8 by itself and which arrives while no Close of the peer is   *)
(* recorded; and the driver calls received_message exactly once, in the    *)
(* cycle of the frame with fin set, with the concatenated payload, and     *)
(* empties the stream's message slot.                                      *)
(***************************************************************************)
Reassembling ==
    /\ pc = "inspect"
    /\ stream.closing = <<>>
    /\ Decoded({OPCODE_TEXT, OPCODE_BINARY, OPCODE_CONTINUATION})
    /\ OneMessage(RunStart(cycle.seq), cycle.seq)
    /\ EachFragmentValid(RunStart(cycle.seq), cycle.seq)

C4_Assembled ==
    LET j == cycle.seq
        i == RunStart(j)
    IN  Reassembling =>
          /\ stream.errors = <<>>
          /\ stream.message # <<>>
          /\ stream.message[1].opcode = wire[i].opcode
          /\ stream.message[1].data = MessageData(wire[i].opcode, RunBytes(i, j))
          /\ has_message(stream) <=> wire[j].fin = 1

C4_Dispatched ==
    LET j == cycle.seq
        i == RunStart(j)
    IN  (Reassembling /\ pc' # pc) =>
          IF wire[j].fin = 1
          THEN /\ cbLog' = Append(cbLog, Callback("received_message", j, wire[i].opcode,
                                      MessageData(wire[i].opcode, RunBytes(i, j))))
               /\ stream'.message = <<>>
               /\ pc' = "drain"
          ELSE /\ cbLog' = cbLog
               /\ stream'.message = stream.message
               /\ pc' = "drain"

C4_OncePerMessage ==
    \A a, b \in DOMAIN cbLog :
       (cbLog[a].cb = "received_message" /\ cbLog[a].seq = cbLog[b].seq) => a = b

\* C4, amended: the assembled message, its single dispatch and the emptied
\* slot, for messages whose text fragments are each valid UTF-8.
C4_Reassembly ==
    /\ [](C4_Assembled /\ C4_OncePerMessage)
    /\ [][C4_Dispatched]_vars

C4_Witness ==
    /\ pc = "drain"
    /\ Len(wire) = 3
    /\ wire[1] = Plain(OPCODE_BINARY, 0, <<195>>)
    /\ wire[2].opcode = OPCODE_PING
    /\ wire[3] = Plain(OPCODE_CONTINUATION, 1, <<169>>)
    /\ cbLog = <<Callback("received_message", 3, OPCODE_BINARY, <<195, 169>>)>>
    /\ stream.message = <<>>

(***************************************************************************)
(* C5.  As claimed: terminated is true only if a Close frame of the peer   *)
(* has been observed or a transport read has timed out.                    *)
(***************************************************************************)
C5_OnlyAfterPeerCloseOrTimeout ==
    terminated => (stream.closing # <<>> \/ exit = "timeout")

(***************************************************************************)
(* C5, amended.  terminated is true only if a Close frame of the peer has  *)
(* been observed or the read loop has been left and its finally clause has *)
(* run.                                                                    *)
(***************************************************************************)
C5_OnlyAfterPeerCloseOrExit ==
    terminated => (stream.closing # <<>> \/ pc \in {"closing", "done"})

C5_Witness ==
    /\ terminated
    /\ pc = "finally"
    /\ exit = "handshake"
    /\ stream.closing # <<>>

(***************************************************************************)
(* C6.  A frame whose declared length exceeds the maximum queues error     *)
(* 1004 with no payload byte requested, and the Close frame the driver     *)
(* sends for it carries code 1004.                                         *)
(***************************************************************************)
C6_TooLargeAnswered ==
    (cycle.status = "FrameTooLargeException" /\ pc \in {"inspect", "finally"})
       => /\ parser.stage = "hdr"
          /\ next_size = (IF parser.at = "align" THEN 0 ELSE 2)
          /\ pc = "inspect" => (stream.errors # <<>> /\ stream.errors[1].code = 1004)
          /\ (pc = "finally" /\ closeCalls = 0 /\ stream.closing = <<>>)
                => \E i \in DOMAIN out : out[i] = Single(OPCODE_CLOSE, <<1004>>)

(***************************************************************************)
(* C7.  received_message and ponged are invoked in the order in which      *)
(* their frames completed on the wire: each callback belongs to a frame,   *)
(* the frames of successive callbacks are in wire order, and nothing       *)
(* decoded is still undelivered when the loop reads again.  (All callbacks *)
(* are made by the one worker thread, one at a time.)                      *)
(***************************************************************************)
Delivered == SelectSeq(cbLog, LAMBDA c : c.cb # "closed")

C7_FifoDispatch ==
    /\ \A a, b \in DOMAIN Delivered : a < b => Delivered[a].seq < Delivered[b].seq
    /\ \A a \in DOMAIN Delivered :
          LET c == Delivered[a]
          IN  /\ c.seq \in DOMAIN wire
              /\ c.cb = "ponged" =>
                    (wire[c.seq].opcode = OPCODE_PONG /\ c.data = Payload(wire[c.seq]))
              /\ c.cb = "received_message" =>
                    (IsData(wire[c.seq].opcode) /\ wire[c.seq].fin = 1)
    /\ pc = "read" => (stream.pongs = <<>> /\ ~has_message(stream))

C7_Witness ==
    /\ Len(Delivered) = 3
    /\ Delivered[1].cb = "ponged"
    /\ Delivered[2].cb = "received_message"
    /\ Delivered[3].cb = "ponged"

(***************************************************************************)
(* C10.  When the read loop has exited, closed() has been invoked exactly  *)
(* once: with 1006 if no peer Close was observed, else with the observed   *)
(* close code.                                                             *)
(***************************************************************************)
ClosedCalls == SelectSeq(cbLog, LAMBDA c : c.cb = "closed")

C10_ClosedOnce ==
    pc = "done" =>
       /\ Len(ClosedCalls) = 1
       /\ ClosedCalls[1].data =
             IF stream.closing = <<>> THEN <<1006>> ELSE <<stream.closing[1].code>>

(***************************************************************************)
(* C11.  The closing handshake at the inspection point.  With a peer Close *)
(* recorded and server_terminated false, the driver writes exactly one     *)
(* Close frame, sets server_terminated and goes on with the cycle; with    *)
(* server_terminated true, it sets client_terminated and leaves the loop   *)
(* without writing.                                                        *)
(***************************************************************************)
C11_ClosingHandshake ==
    [][ /\ (pc = "inspect" /\ stream.closing # <<>> /\ server_terminated /\ pc' # pc)
           => /\ client_terminated'
              /\ pc' = "finally"
              /\ exit' = "handshake"
              /\ out' = out
        /\ (pc = "inspect" /\ stream.closing # <<>> /\ ~server_terminated /\ pc' # pc)
           => /\ pc' = "answer"
              /\ out' = out
        /\ (pc = "answer" /\ ~server_terminated /\ pc' # pc)
           => /\ Len(out') = Len(out) + 1
              /\ out'[Len(out')].opcode = OPCODE_CLOSE
              /\ SubSeq(out', 1, Len(out)) = out
              /\ server_terminated'
              /\ pc' = "drain" ]_vars

(***************************************************************************)
(* C12.  The error drain.  With no peer Close recorded and k >= 1 error    *)
(* records queued at the inspection point, the driver writes one Close     *)
(* frame per record, carrying its code and reason, in queue order, empties *)
(* the queue and leaves the loop; whether or not close() was called        *)
(* before.                                                                 *)
(***************************************************************************)
CloseFramesFor(errors) ==
    [i \in 1..Len(errors) |->
        Encoded(OPCODE_CLOSE, 1, <<errors[i].code>> \o errors[i].reason)]

C12_ErrorDrain ==
    [][ (pc = "inspect" /\ stream.closing = <<>> /\ stream.errors # <<>> /\ pc' # pc)
          => /\ out' = out \o CloseFramesFor(stream.errors)
             /\ stream'.errors = <<>>
             /\ pc' = "finally" ]_vars

(***************************************************************************)
(* C13.  A text or binary frame that completes while the stream holds a    *)
(* message not yet completed leaves that message in place: it is neither   *)
(* replaced nor discarded.                                                 *)
(***************************************************************************)
C13_NoReplacement ==
    [][ (/\ pc = "read"
         /\ pc' = "inspect"
         /\ stream.message # <<>>
         /\ ~stream.message[1].completed
         /\ cycle'.status = "ok"
         /\ wire'[cycle'.seq].opcode \in {OPCODE_TEXT, OPCODE_BINARY})
          => stream'.message = stream.message ]_vars

(***************************************************************************)
(* C14.  A frame on which the decoder fails appends exactly one error      *)
(* record (1002 for a protocol error, 1004 for a frame too large) and      *)
(* changes nothing else of the stream: no message, no Close, no ping or    *)
(* pong, no second error record.                                           *)
(***************************************************************************)
C14_OneErrorPerViolation ==
    [][ (/\ pc = "read"
         /\ pc' = "inspect"
         /\ cycle'.status \in {"ProtocolException", "FrameTooLargeException"})
          => stream' = [stream EXCEPT !.errors =
                           Append(@, CloseControlMessage(
                                        IF cycle'.status = "ProtocolException"
                                        THEN 1002 ELSE 1004, <<>>))] ]_vars

(***************************************************************************)
(* C15.  A read that returns fewer bytes than asked for while more were    *)
(* required (none at all, or some but not all) ends the loop in that       *)
(* cycle: the loop breaks on the empty read and the short chunk raises     *)
(* into the loop's except clause; nothing is dispatched or written, and    *)
(* the worker goes on to the teardown.                                     *)
(***************************************************************************)
ShortRead == cycle.status \in {"empty", "short"}

C15_LeavesOnShortRead ==
    [][ /\ (pc = "read" /\ ShortRead')
           => /\ next_size > 0
              /\ pc' = "finally"
              /\ exit' = (IF cycle'.status = "empty" THEN "eof" ELSE "short")
              /\ stream' = stream
              /\ out' = out
              /\ cbLog' = cbLog
        /\ (ShortRead /\ pc' # pc)
           => pc' \in {"closing", "done"} ]_vars

C15_ShortReadCloses == [](ShortRead => pc \in {"finally", "closing", "done"})
                       /\ C15_LeavesOnShortRead

C15_Witness ==
    /\ pc = "closing"
    /\ exit = "short"
    /\ cycle.status = "short"
    /\ parser.stage = "mask"
    /\ Len(wire) = 2

(***************************************************************************)
(* C16.  Every blocking read of the worker carries the timeout set at      *)
(* construction (30 seconds).                                              *)
(***************************************************************************)
C16_ReadsCarryTimeout == pc = "read" => sock.timeout = 30

(***************************************************************************)
(* C17.  When the loop was left by an exception (a failed or short read,   *)
(* or one raised while the stream was inspected) and the worker has        *)
(* finished, the closed callback was invoked with code 1006.               *)
(***************************************************************************)
C17_ExceptionReported ==
    (pc = "done" /\ exit \in {"exception", "reset", "timeout", "short"})
       => ClosedCalls = <<Callback("closed", 0, 0, <<1006>>)>>

(***************************************************************************)
(* C18.  The driver stays aligned with the receiver: whenever the worker   *)
(* reads while the receiver stands at the alignment yield that follows a   *)
(* frame with an empty payload, it asks for 0 bytes, and no bytes of the   *)
(* transport are ever consumed by the alignment step and dropped.          *)
(***************************************************************************)
C18_DriverAligned ==
    /\ (pc = "read" /\ parser.at = "align") => next_size = 0
    /\ cycle.status # "dropped"

(***************************************************************************)
(* C19.  When the worker has finished, both termination flags are true and *)
(* the transport is closed, whether or not its shutdown succeeded.         *)
(***************************************************************************)
C19_ClosedAfterExit ==
    pc = "done" => (terminated /\ sock.state = "closed")

(***************************************************************************)
(* WebSocketHandler.send(payload, binary), one call on a quiet connection. *)
(***************************************************************************)
\* The chunks a payload (or a generator's item) may be.
Chunks == {<<97>>, <<195, 169>>}

\* All sequences over S of length at most n.
RECURSIVE SeqsUpTo(_, _)
SeqsUpTo(S, n) ==
    IF n = 0 THEN {<<>>}
    ELSE LET shorter == SeqsUpTo(S, n - 1)
         IN  shorter \cup {Append(q, x) : q \in {r \in shorter : Len(r) = n - 1}, x \in S}

\* message_sender: stream.binary_message if binary else stream.text_message;
\* what matters of the message it builds is its opcode.
MessageOpcode(binary) == IF binary THEN OPCODE_BINARY ELSE OPCODE_TEXT

\* send() of a string or bytearray: one unfragmented frame.
SendLiteral ==
    /\ snd.pc = "idle"
    /\ \E binary \in BOOLEAN, payload \in Chunks :
          /\ out' = Append(out, Single(MessageOpcode(binary), payload))
          /\ snd' = [IdleSend EXCEPT !.pc = "done", !.binary = binary]
    /\ UNCHANGED <<pc, next_size, client_terminated, server_terminated, sock, stream,
                   parser, wire, cycle, cbLog, exit, closeCalls, thr, sockbuf, closer>>

\* send() of a Message instance: payload.single(), whatever `binary` says.
SendMessage ==
    /\ snd.pc = "idle"
    /\ \E binary \in BOOLEAN, op \in {OPCODE_TEXT, OPCODE_BINARY, OPCODE_PING},
          payload \in Chunks :
          /\ out' = Append(out, Single(op, payload))
          /\ snd' = [IdleSend EXCEPT !.pc = "done", !.binary = binary]
    /\ UNCHANGED <<pc, next_size, client_terminated, server_terminated, sock, stream,
                   parser, wire, cycle, cbLog, exit, closeCalls, thr, sockbuf, closer>>

\* send() of a generator: bytes = payload.next(); first = True.  An empty
\* generator raises StopIteration out of send().
SendGenerator ==
    /\ snd.pc = "idle"
    /\ \E binary \in BOOLEAN, chunks \in SeqsUpTo(Chunks, MaxChunks) :
          snd' = IF chunks = <<>>
                 THEN [IdleSend EXCEPT !.pc = "raised", !.binary = binary]
                 ELSE [pc |-> "loop", binary |-> binary, chunks |-> chunks,
                       rest |-> Tail(chunks), bytes |-> Head(chunks), first |-> TRUE]
    /\ UNCHANGED <<pc, next_size, client_terminated, server_terminated, sock, stream,
                   parser, wire, cycle, out, cbLog, exit, closeCalls, thr, sockbuf, closer>>

\* One iteration of `for chunk in payload`: the chunk held in `bytes` is
\* written as fragment(first=first), then bytes = chunk; first = False.
SendLoop ==
    /\ snd.pc = "loop"
    /\ snd.rest # <<>>
    /\ out' = Append(out, Fragment(MessageOpcode(snd.binary), snd.bytes, snd.first, FALSE))
    /\ snd' = [snd EXCEPT !.bytes = Head(snd.rest), !.rest = Tail(snd.rest),
                          !.first = FALSE]
    /\ UNCHANGED <<pc, next_size, client_terminated, server_terminated, sock, stream,
                   parser, wire, cycle, cbLog, exit, closeCalls, thr, sockbuf, closer>>

\* After the loop: the chunk held in `bytes` is written as
\* fragment(last=True); `first` is not passed and keeps its default, False.
SendLast ==
    /\ snd.pc = "loop"
    /\ snd.rest = <<>>
    /\ out' = Append(out, Fragment(MessageOpcode(snd.binary), snd.bytes, FALSE, TRUE))
    /\ snd' = [snd EXCEPT !.pc = "done"]
    /\ UNCHANGED <<pc, next_size, client_terminated, server_terminated, sock, stream,
                   parser, wire, cycle, cbLog, exit, closeCalls, thr, sockbuf, closer>>

NextSend == SendLiteral \/ SendMessage \/ SendGenerator \/ SendLoop \/ SendLast

SpecSend == Init /\ [][NextSend]_vars

(***************************************************************************)
(* C9.  send() of a lazily produced sequence of N >= 1 chunks writes N     *)
(* frames in chunk order: the first with the message opcode, the others    *)
(* with the continuation opcode; fin is 0 on frames 1..N-1 and 1 on        *)
(* frame N.                                                                *)
(***************************************************************************)
C9_FragmentedSend ==
    (snd.pc = "done" /\ snd.chunks # <<>>) =>
       /\ Len(out) = Len(snd.chunks)
       /\ \A k \in DOMAIN out :
             /\ out[k].body = snd.chunks[k]
             /\ out[k].opcode = IF k = 1 THEN MessageOpcode(snd.binary)
                                ELSE OPCODE_CONTINUATION
             /\ out[k].fin = IF k = Len(snd.chunks) THEN 1 ELSE 0

(***************************************************************************)
(* write_to_connection from several threads.  sock.sendall(bytes) hands    *)
(* the bytes to the socket in one or more send calls, each accepting a     *)
(* non-empty prefix of what is left; nothing in the handler keeps another  *)
(* thread from calling sendall on the same socket in between.  A byte is   *)
(* written down as [by, call, idx]: the thread, which of its               *)
(* write_to_connection calls, and the byte's place in that frame.          *)
(***************************************************************************)
\* The bytes of the n-th frame thread t writes: 2 header bytes and the body.
FrameBytes(t, n, frame) ==
    [k \in 1..(2 + Len(frame.body)) |-> [by |-> t, call |-> n, idx |-> k]]

WritesStarted ==
    LET RECURSIVE Sum(_)
        Sum(S) == IF S = {} THEN 0
                  ELSE LET t == CHOOSE x \in S : TRUE
                       IN  thr[t].calls + Len(thr[t].queue) + Sum(S \ {t})
    IN  Sum(Threads)

\* An application thread calls send(): a literal (one frame) or a generator
\* of two chunks (two frames, written one after the other).
ConcSend(t) ==
    /\ t # "worker"
    /\ thr[t].queue = <<>> /\ thr[t].left = <<>>
    /\ \E frames \in {<<Single(OPCODE_TEXT, <<97>>)>>,
                      <<Fragment(OPCODE_TEXT, <<97>>, TRUE, FALSE),
                        Fragment(OPCODE_TEXT, <<>>, FALSE, TRUE)>>} :
          /\ WritesStarted + Len(frames) <= MaxWrites
          /\ thr' = [thr EXCEPT ![t].queue = frames]
    /\ UNCHANGED <<wvars, snd, sockbuf, closer>>

\* The worker answers a ping: write_to_connection(s.pong(...)).
ConcPong ==
    /\ thr["worker"].queue = <<>> /\ thr["worker"].left = <<>>
    /\ WritesStarted + 1 <= MaxWrites
    /\ thr' = [thr EXCEPT !["worker"].queue = <<StreamPong(<<97>>)>>]
    /\ UNCHANGED <<wvars, snd, sockbuf, closer>>

\* write_to_connection(bytes): the thread enters sock.sendall with the
\* bytes of its next frame.
WriteToConnection(t) ==
    /\ thr[t].left = <<>>
    /\ thr[t].queue # <<>>
    /\ thr' = [thr EXCEPT ![t].left = FrameBytes(t, thr[t].calls + 1, Head(thr[t].queue)),
                          ![t].queue = Tail(@),
                          ![t].calls = @ + 1]
    /\ UNCHANGED <<wvars, snd, sockbuf, closer>>

\* Inside sendall: the socket accepts the next k bytes of thread t.
Sendall(t) ==
    /\ thr[t].left # <<>>
    /\ \E k \in 1..Len(thr[t].left) :
          /\ sockbuf' = sockbuf \o SubSeq(thr[t].left, 1, k)
          /\ thr' = [thr EXCEPT ![t].left = SubSeq(@, k + 1, Len(@))]
    /\ UNCHANGED <<wvars, snd, closer>>

NextConc ==
    \/ \E t \in Threads : ConcSend(t)
    \/ ConcPong
    \/ \E t \in Threads : WriteToConnection(t)
    \/ \E t \in Threads : Sendall(t)

SpecConc == Init /\ [][NextConc]_vars

(***************************************************************************)
(* C8.  Writes to the transport are mutually exclusive: the bytes of one   *)
(* frame are never interleaved with bytes written by a different caller.   *)
(***************************************************************************)
C8_FramesNotInterleaved ==
    \A a, b, c \in DOMAIN sockbuf :
       (/\ a < b /\ b < c
        /\ sockbuf[a].by = sockbuf[c].by
        /\ sockbuf[a].call = sockbuf[c].call)
          => sockbuf[b].by = sockbuf[a].by

(***************************************************************************)
(* close() called from several threads: the worker (answering a peer       *)
(* Close, or draining the error queue) and application threads.  The test  *)
(* of server_terminated (line 63), its update (line 64) and the write      *)
(* (line 65) are separate steps; nothing keeps another thread from running *)
(* in between.                                                             *)
(***************************************************************************)
\* The codes a thread calls close() with: the worker passes on the code of
\* the recorded Close (always the default) or of a queued error.
CloseCodes(t) == IF t = "worker" THEN {DefaultCloseCode, 1002} ELSE {1000, 1001}

\* close(code), line 63: `if not self.server_terminated`.
CloseTest(t) ==
    /\ closer[t].at = "out"
    /\ closer[t].calls < MaxCloseCalls
    /\ \E code \in CloseCodes(t) :
          closer' = [closer EXCEPT
                       ![t].calls = @ + 1,
                       ![t].code = IF server_terminated THEN @ ELSE code,
                       ![t].at = IF server_terminated THEN "out" ELSE "line64",
                       ![t].passed = IF server_terminated THEN @ ELSE TRUE]
    /\ UNCHANGED <<wvars, snd, thr, sockbuf>>

\* close(), line 64: self.server_terminated = True.
CloseSet(t) ==
    /\ closer[t].at = "line64"
    /\ server_terminated' = TRUE
    /\ closer' = [closer EXCEPT ![t].at = "line65"]
    /\ UNCHANGED <<pc, next_size, client_terminated, sock, stream, parser, wire,
                   cycle, out, cbLog, exit, closeCalls, snd, thr, sockbuf>>

\* close(), line 65: write_to_connection(stream.close(...).single()); the
\* frame is written when .single() can be called on what stream.close
\* returned, else the call raises and close() is left with nothing written.
CloseWrite(t) ==
    /\ closer[t].at = "line65"
    /\ LET built == StreamClose(closer[t].code, <<>>)
       IN  out' = IF HasSingle(built) THEN Append(out, built.frame) ELSE out
    /\ closer' = [closer EXCEPT ![t].at = "out"]
    /\ UNCHANGED <<pc, next_size, client_terminated, server_terminated, sock, stream,
                   parser, wire, cycle, cbLog, exit, closeCalls, snd, thr, sockbuf>>

NextClose ==
    \/ \E t \in Threads : CloseTest(t)
    \/ \E t \in Threads : CloseSet(t)
    \/ \E t \in Threads : CloseWrite(t)

SpecClose == Init /\ [][NextClose]_vars

(***************************************************************************)
(* C20.  Over the lifetime of a connection at most one Close frame is      *)
(* written, because at most one caller of close() ever finds               *)
(* server_terminated false: no two callers both pass the test and go on to *)
(* the update and the write.                                               *)
(***************************************************************************)
C20_AtMostOneCloseFrame ==
    /\ Cardinality(CloseFramesWritten) <= 1
    /\ Cardinality({t \in Threads : closer[t].passed}) <= 1

=============================================================================
